---------------------------- MODULE Spec2Model ----------------------------
(***************************************************************************)
(* A model of seispy.core.velocity.VelocityModel: one instance, its three  *)
(* arrays (_nodes, _Vp, _Vs), and the calls a client makes on it.          *)
(*                                                                         *)
(* Numbers.  Coordinates and stored velocities are integers; the result of *)
(* the interpolation is an exact rational <<num, den>> in lowest terms, so *)
(* floating-point rounding is abstracted away and everything else of the   *)
(* arithmetic (the divisions by the bracket widths) is kept.               *)
(*                                                                         *)
(* Arrays.  A numpy array is [shape |-> <<n0, n1, n2>>, data |-> <<...>>]  *)
(* with data in C order, so reshape and flatten are what numpy does.       *)
(* Indices are 0-based as in the source; a negative index counts from the  *)
(* end.                                                                    *)
(*                                                                         *)
(* Strings.  A Python str is a sequence of one-character strings, so that  *)
(* str.upper() is computed character by character.                         *)
(***************************************************************************)
EXTENDS Integers, Sequences, FiniteSets, TLC

VARIABLES
    attrs,   \* the names of the attributes set on the instance
    _nodes,  \* self._nodes: the Node Lattice, data of <<R, T, P>> triples
    _Vp,     \* self._Vp
    _Vs,     \* self._Vs
    last     \* the call in progress: what was called, with what, and its outcome

vars == <<attrs, _nodes, _Vp, _Vs, last>>

(***************************************************************************)
(* Bounds of the model.                                                    *)
(***************************************************************************)
\* the largest number of distinct coordinates on one axis of a lattice
MaxAxis == 2
\* single-point queries take each coordinate offset from 0 .. MaxCoord
MaxCoord == 4
\* the largest number of points in a coordinate array passed to __call__
MaxPts == 2
\* point clouds of at most this many records are tried in every input order
MaxPermLen == 4
\* samples per side of a slice
MaxSlice == 2

(***************************************************************************)
(* Constants of the collaborators (seispy.core.constants, coords).         *)
(***************************************************************************)
EARTH_RADIUS == 6371
\* a quarter turn in the model's angle unit (colatitude = quarter turn - latitude)
QuarterTurn == 90

\* Python's None
None == [t |-> "NoneType"]

(***************************************************************************)
(* Python strings                                                          *)
(***************************************************************************)
LowerChars == <<"a","b","c","d","e","f","g","h","i","j","k","l","m",
                "n","o","p","q","r","s","t","u","v","w","x","y","z">>
UpperChars == <<"A","B","C","D","E","F","G","H","I","J","K","L","M",
                "N","O","P","Q","R","S","T","U","V","W","X","Y","Z">>

upper_char(c) ==
    IF \E i \in 1..Len(LowerChars) : LowerChars[i] = c
    THEN UpperChars[CHOOSE i \in 1..Len(LowerChars) : LowerChars[i] = c]
    ELSE c

\* str.upper()
upper(s) == [i \in 1..Len(s) |-> upper_char(s[i])]

\* a Python value that is a str, and one that is a float
Str(s) == [t |-> "str", s |-> s]
Float(v) == [t |-> "float", v |-> v]

(***************************************************************************)
(* Evaluation.  Only({e(x) : x \in {v}}) is e(v) with v evaluated once;    *)
(* the definitions below bind their intermediate values this way.          *)
(***************************************************************************)
Only(S) == CHOOSE x \in S : TRUE

(***************************************************************************)
(* Exact rationals for the float arithmetic of the interpolation           *)
(***************************************************************************)
Abs(a) == IF a < 0 THEN -a ELSE a

RECURSIVE Gcd(_, _)
Gcd(a, b) == IF b = 0 THEN a ELSE Only({Gcd(y, x % y) : x \in {a}, y \in {b}})

\* n/d in lowest terms with a positive denominator (d # 0)
Rat(n, d) ==
    Only({ <<(s * n) \div g, (s * d) \div g>> :
             g \in {Gcd(Abs(n), Abs(d))}, s \in {IF d < 0 THEN -1 ELSE 1} })

RInt(a) == <<a, 1>>
RAdd(a, b) == Only({Rat(x[1] * y[2] + y[1] * x[2], x[2] * y[2]) : x \in {a}, y \in {b}})
RSub(a, b) == Only({Rat(x[1] * y[2] - y[1] * x[2], x[2] * y[2]) : x \in {a}, y \in {b}})
RMul(a, b) == Only({Rat(x[1] * y[1], x[2] * y[2]) : x \in {a}, y \in {b}})
RDiv(a, b) == Only({Rat(x[1] * y[2], x[2] * y[1]) : x \in {a}, y \in {b}})

\* a + (b - a)*delta/d, evaluated left to right as the source writes it
Lerp(a, b, delta, d) == RAdd(a, RDiv(RMul(RSub(b, a), RInt(delta)), RInt(d)))

(***************************************************************************)
(* numpy arrays                                                            *)
(***************************************************************************)
EmptyArray == [shape |-> <<0, 0, 0>>, data |-> <<>>]

\* a Python index into an axis of length n: negative indices count from the end
PyIdx(i, n) == IF i < 0 THEN n + i ELSE i

\* a[i, j, k]
At3(a, i, j, k) ==
    LET ii == PyIdx(i, a.shape[1])
        jj == PyIdx(j, a.shape[2])
        kk == PyIdx(k, a.shape[3])
    IN a.data[(ii * a.shape[2] + jj) * a.shape[3] + kk + 1]

\* np.nonzero(mask)[0]: the 0-based indices where mask holds, ascending
nonzero(mask) == SelectSeq([i \in 1..Len(mask) |-> i - 1], LAMBDA i : mask[i + 1])

\* np.any(a) of an integer array: some element is not 0
np_any(a) == \E i \in 1..Len(a) : a[i] # 0

\* the lexicographic strict order on triples
LexLess(a, b) ==
    \/ a[1] < b[1]
    \/ a[1] = b[1] /\ a[2] < b[2]
    \/ a[1] = b[1] /\ a[2] = b[2] /\ a[3] < b[3]

\* DataFrame.sort_values(columns): a stable sort of the rows s by their keys,
\* keys[i] being the triple of the sort columns of row i
SortBy(s, keys) ==
    LET Sorted(v, k) ==
            LET n == Len(v)
                rank(i) == 1 + Cardinality({j \in 1..n :
                                \/ LexLess(k[j], k[i])
                                \/ (~LexLess(k[i], k[j]) /\ j < i)})
            IN Only({ [r \in 1..n |-> v[CHOOSE i \in 1..n : ranks[i] = r]] :
                        ranks \in {[i \in 1..n |-> rank(i)]} })
    IN Only({ Sorted(v, k) : v \in {s}, k \in {keys} })

(***************************************************************************)
(* The coordinate transform collaborator (seispy.core.coords)              *)
(***************************************************************************)
\* as_geographic(<<lat, lon, depth>>).to_spherical()
to_spherical(g) == <<EARTH_RADIUS - g[3], QuarterTurn - g[1], g[2]>>

\* as_spherical(<<R, T, P>>).to_geographic()
to_geographic(s) == <<QuarterTurn - s[2], s[3], EARTH_RADIUS - s[1]>>

(***************************************************************************)
(* Outcomes.  A call either returns or raises; "none" is a normal return.  *)
(***************************************************************************)
Returned == "none"

\* the instance as the methods see it
Self == [attrs |-> attrs, _nodes |-> _nodes, _Vp |-> _Vp, _Vs |-> _Vs]

NewInstance == [attrs |-> {}, _nodes |-> EmptyArray, _Vp |-> EmptyArray,
                _Vs |-> EmptyArray]

(***************************************************************************)
(* _verify_phase                                                           *)
(***************************************************************************)
\* a float has no .upper(): AttributeError
_verify_phase(phase) ==
    IF phase.t # "str" THEN [raised |-> "AttributeError", phase |-> "none"]
    ELSE IF upper(phase.s) = <<"P">> \/ upper(phase.s) = <<"V", "P">>
         THEN [raised |-> Returned, phase |-> "P"]
    ELSE IF upper(phase.s) = <<"S">> \/ upper(phase.s) = <<"V", "S">>
         THEN [raised |-> Returned, phase |-> "S"]
    ELSE [raised |-> "ValueError", phase |-> "none"]

(***************************************************************************)
(* _get_V: the per-axis locator, written three times in the source         *)
(***************************************************************************)
\* a 1-D coordinate array a, indexed from 0, negative indices from the end
At1(a, i) == a[PyIdx(i, Len(a)) + 1]

\* locate without the exact-match branch
locate_no_exact(axis, q) ==
    LET n == Len(axis)
        bracket(idxl, idxr) ==
            IF ~np_any(idxl) THEN <<0, 0>>
            ELSE IF ~np_any(idxr) THEN <<-1, -1>>
            ELSE <<idxl[Len(idxl)], idxr[1]>>
        widths(i0, i1) ==
            IF i0 = i1
            THEN [i0 |-> i0, i1 |-> i1, d |-> 1, delta |-> 0]
            ELSE [i0 |-> i0, i1 |-> i1,
                  d |-> At1(axis, i1) - At1(axis, i0),
                  delta |-> q - At1(axis, i0)]
    IN Only({ widths(pair[1], pair[2]) :
                pair \in { bracket(idxl, idxr) :
                             idxl \in {nonzero([i \in 1..n |-> axis[i] < q])},
                             idxr \in {nonzero([i \in 1..n |-> axis[i] > q])} } })

\* locate with a query above the axis clamped to the first index
locate_clamp_first(axis, q) ==
    LET n == Len(axis)
        bracket(idx, idxl, idxr) ==
            IF Len(idx) > 0 THEN <<idx[1], idx[1]>>
            ELSE IF ~np_any(idxl) THEN <<0, 0>>
            ELSE IF ~np_any(idxr) THEN <<0, 0>>
            ELSE <<idxl[Len(idxl)], idxr[1]>>
        widths(i0, i1) ==
            IF i0 = i1
            THEN [i0 |-> i0, i1 |-> i1, d |-> 1, delta |-> 0]
            ELSE [i0 |-> i0, i1 |-> i1,
                  d |-> At1(axis, i1) - At1(axis, i0),
                  delta |-> q - At1(axis, i0)]
    IN Only({ widths(pair[1], pair[2]) :
                pair \in { bracket(idx, idxl, idxr) :
                             idx  \in {nonzero([i \in 1..n |-> axis[i] = q])},
                             idxl \in {nonzero([i \in 1..n |-> axis[i] < q])},
                             idxr \in {nonzero([i \in 1..n |-> axis[i] > q])} } })

locate(axis, q) ==
    LET n == Len(axis)
        bracket(idx, idxl, idxr) ==
            IF Len(idx) > 0 THEN <<idx[1], idx[1]>>
            ELSE IF ~np_any(idxl) THEN <<0, 0>>
            ELSE IF ~np_any(idxr) THEN <<-1, -1>>
            ELSE <<idxl[Len(idxl)], idxr[1]>>
        widths(i0, i1) ==
            IF i0 = i1
            THEN [i0 |-> i0, i1 |-> i1, d |-> 1, delta |-> 0]
            ELSE [i0 |-> i0, i1 |-> i1,
                  d |-> At1(axis, i1) - At1(axis, i0),
                  delta |-> q - At1(axis, i0)]
    IN Only({ widths(pair[1], pair[2]) :
                pair \in { bracket(idx, idxl, idxr) :
                             idx  \in {nonzero([i \in 1..n |-> axis[i] = q])},
                             idxl \in {nonzero([i \in 1..n |-> axis[i] < q])},
                             idxr \in {nonzero([i \in 1..n |-> axis[i] > q])} } })

\* self._nodes[:, 0, 0, 0], self._nodes[0, :, 0, 1], self._nodes[0, 0, :, 2]
axis_R(nodes) == [i \in 1..nodes.shape[1] |-> At3(nodes, i - 1, 0, 0)[1]]

axis_T(nodes) == [j \in 1..nodes.shape[2] |-> At3(nodes, 0, j - 1, 0)[2]]

axis_P(nodes) == [k \in 1..nodes.shape[3] |-> At3(nodes, 0, 0, k - 1)[3]]

\* the 8 corners and the 7 linear interpolations
trilinear(VV, lR, lT, lP) ==
    LET V000 == RInt(At3(VV, lR.i0, lT.i0, lP.i0))
        V001 == RInt(At3(VV, lR.i0, lT.i0, lP.i1))
        V010 == RInt(At3(VV, lR.i0, lT.i1, lP.i0))
        V011 == RInt(At3(VV, lR.i0, lT.i1, lP.i1))
        V100 == RInt(At3(VV, lR.i1, lT.i0, lP.i0))
        V101 == RInt(At3(VV, lR.i1, lT.i0, lP.i1))
        V110 == RInt(At3(VV, lR.i1, lT.i1, lP.i0))
        V111 == RInt(At3(VV, lR.i1, lT.i1, lP.i1))
    IN Only({ Only({ Lerp(V0, V1, lP.delta, lP.d) :
                       V0 \in {Lerp(V00, V10, lT.delta, lT.d)},
                       V1 \in {Lerp(V01, V11, lT.delta, lT.d)} }) :
                V00 \in {Lerp(V000, V100, lR.delta, lR.d)},
                V01 \in {Lerp(V001, V101, lR.delta, lR.d)},
                V10 \in {Lerp(V010, V110, lR.delta, lR.d)},
                V11 \in {Lerp(V011, V111, lR.delta, lR.d)} })

NoLoc == [i0 |-> 0, i1 |-> 0, d |-> 1, delta |-> 0]

Raise(e) == [raised |-> e, val |-> <<0, 1>>, loc |-> <<NoLoc, NoLoc, NoLoc>>]

\* an instance that was never built has no _Vp, _Vs, _nodes: AttributeError
_get_V(self, phase, rho, theta, phi) ==
    LET vp == _verify_phase(phase)
    IN IF vp.raised # Returned THEN Raise(vp.raised)
       ELSE IF (IF vp.phase = "P" THEN "_Vp" ELSE "_Vs") \notin self.attrs
            THEN Raise("AttributeError")
       ELSE IF "_nodes" \notin self.attrs THEN Raise("AttributeError")
       ELSE LET VV == IF vp.phase = "P" THEN self._Vp ELSE self._Vs
            IN Only({ [raised |-> Returned,
                       val    |-> trilinear(VV, lR, lT, lP),
                       loc    |-> <<lR, lT, lP>>] :
                        lR \in {locate(axis_R(self._nodes), rho)},
                        lT \in {locate(axis_T(self._nodes), theta)},
                        lP \in {locate(axis_P(self._nodes), phi)} })

(***************************************************************************)
(* The Grid Builder: sort by (R, T, P), count the distinct values of each  *)
(* axis, reshape.  rows carry R, T, P, Vp, Vs.  The same lines are written *)
(* in from_DataFrame, _read_ucvm and _read_fang.                           *)
(***************************************************************************)
RTP(row) == <<row.R, row.T, row.P>>

\* build_grid with the sorted frame dropped: the rows are reshaped as given
build_grid_unsorted(self, rows) ==
    LET reshape(df, n, nR, nT, nP) ==
            IF nR * nT * nP # n
            THEN [raised |-> "ValueError", self |-> self]
            ELSE [raised |-> Returned,
                  self |-> [attrs  |-> self.attrs \cup {"_nodes", "_Vp", "_Vs"},
                            _nodes |-> [shape |-> <<nR, nT, nP>>,
                                        data |-> [i \in 1..n |-> RTP(df[i])]],
                            _Vp    |-> [shape |-> <<nR, nT, nP>>,
                                        data |-> [i \in 1..n |-> df[i].Vp]],
                            _Vs    |-> [shape |-> <<nR, nT, nP>>,
                                        data |-> [i \in 1..n |-> df[i].Vs]]]]
    IN Only({ reshape(df, Len(df),
                      Cardinality({df[i].R : i \in 1..Len(df)}),
                      Cardinality({df[i].T : i \in 1..Len(df)}),
                      Cardinality({df[i].P : i \in 1..Len(df)})) :
                df \in {rows} })

build_grid(self, rows) ==
    LET reshape(df, n, nR, nT, nP) ==
            IF nR * nT * nP # n
            THEN [raised |-> "ValueError", self |-> self]
            ELSE [raised |-> Returned,
                  self |-> [attrs  |-> self.attrs \cup {"_nodes", "_Vp", "_Vs"},
                            _nodes |-> [shape |-> <<nR, nT, nP>>,
                                        data |-> [i \in 1..n |-> RTP(df[i])]],
                            _Vp    |-> [shape |-> <<nR, nT, nP>>,
                                        data |-> [i \in 1..n |-> df[i].Vp]],
                            _Vs    |-> [shape |-> <<nR, nT, nP>>,
                                        data |-> [i \in 1..n |-> df[i].Vs]]]]
    IN Only({ reshape(df, Len(df),
                      Cardinality({df[i].R : i \in 1..Len(df)}),
                      Cardinality({df[i].T : i \in 1..Len(df)}),
                      Cardinality({df[i].P : i \in 1..Len(df)})) :
                df \in {SortBy(rows, [i \in 1..Len(rows) |-> RTP(rows[i])])} })

\* df[["R", "T", "P"]] = as_geographic(df[["lat", "lon", "depth"]]).to_spherical()
with_spherical(df) ==
    [i \in 1..Len(df) |->
        Only({ [lat |-> df[i].lat, lon |-> df[i].lon, depth |-> df[i].depth,
                Vp |-> df[i].Vp, Vs |-> df[i].Vs,
                R |-> s[1], T |-> s[2], P |-> s[3]] :
                 s \in {to_spherical(<<df[i].lat, df[i].lon, df[i].depth>>)} })]

from_DataFrame(self, df) == build_grid(self, with_spherical(df))

(***************************************************************************)
(* to_DataFrame                                                            *)
(***************************************************************************)
GeoOf(row) == <<row.lat, row.lon, row.depth>>

\* to_DataFrame with the value columns left in lattice order by the sort
to_DataFrame_values_in_place(self) ==
    IF {"_nodes", "_Vp", "_Vs"} \subseteq self.attrs
    THEN LET n  == Len(self._nodes.data)
             df == [i \in 1..n |->
                      Only({ [lat |-> g[1], lon |-> g[2], depth |-> g[3],
                              Vp |-> self._Vp.data[i], Vs |-> self._Vs.data[i],
                              R |-> self._nodes.data[i][1],
                              T |-> self._nodes.data[i][2],
                              P |-> self._nodes.data[i][3]] :
                               g \in {to_geographic(self._nodes.data[i])} })]
         IN Only({ [raised |-> Returned,
                    df |-> [i \in 1..n |->
                              [sorted[i] EXCEPT !.Vp = self._Vp.data[i],
                                                !.Vs = self._Vs.data[i]]]] :
                     sorted \in {SortBy(df, [i \in 1..n |-> GeoOf(df[i])])} })
    ELSE [raised |-> "AttributeError", df |-> <<>>]

to_DataFrame(self) ==
    IF {"_nodes", "_Vp", "_Vs"} \subseteq self.attrs
    THEN LET n  == Len(self._nodes.data)
             df == [i \in 1..n |->
                      Only({ [lat |-> g[1], lon |-> g[2], depth |-> g[3],
                              Vp |-> self._Vp.data[i], Vs |-> self._Vs.data[i],
                              R |-> self._nodes.data[i][1],
                              T |-> self._nodes.data[i][2],
                              P |-> self._nodes.data[i][3]] :
                               g \in {to_geographic(self._nodes.data[i])} })]
         IN [raised |-> Returned,
             df |-> SortBy(df, [i \in 1..n |-> GeoOf(df[i])])]
    ELSE [raised |-> "AttributeError", df |-> <<>>]

(***************************************************************************)
(* __call__: the public query.  coords is an array of geographic triples   *)
(* of leading shape coords.shape; the points are visited in order and the  *)
(* first exception ends the call.                                          *)
(***************************************************************************)
NoArray == [shape |-> <<0>>, data |-> <<>>]

\* the outcome of a loop of calls v[1], v[2], ...: the first exception, if any
FirstRaised(v) ==
    IF \E i \in 1..Len(v) : v[i].raised # Returned
    THEN v[CHOOSE i \in 1..Len(v) :
              /\ v[i].raised # Returned
              /\ \A j \in 1..(i - 1) : v[j].raised = Returned].raised
    ELSE Returned

__call__(self, phase, coords) ==
    LET n   == Len(coords.data)
        rtp == [i \in 1..n |-> to_spherical(coords.data[i])]
        func(c) == _get_V(self, phase, c[1], c[2], c[3])
        result(v) ==
            IF FirstRaised(v) # Returned
            THEN [raised |-> FirstRaised(v), vv |-> NoArray]
            ELSE [raised |-> Returned,
                  vv |-> [shape |-> coords.shape,
                          data |-> [i \in 1..n |-> v[i].val]]]
    IN Only({ result(v) : v \in {[i \in 1..n |-> func(rtp[i])]} })

(***************************************************************************)
(* regrid, regularize.  target is the lattice (R, T, P) as one array of    *)
(* triples.  The loop calls self._get_V(r, theta, phi, phase): the radius  *)
(* lands in the phase parameter.  After the loop the source stores into    *)
(* self.values and self.nodes, attributes that nothing ever sets.          *)
(***************************************************************************)
\* regrid that stores the target lattice in self._nodes before it resamples
regrid_nodes_first(self, target) ==
    LET n == Len(target.data)
        s1 == [self EXCEPT !.attrs = @ \cup {"_nodes"}, !._nodes = target]
        call(i, phase) == _get_V(self, Float(target.data[i][1]),
                                 target.data[i][2], target.data[i][3], Str(phase))
        result(v) ==
            IF FirstRaised(v) # Returned
            THEN [raised |-> FirstRaised(v), self |-> s1]
            ELSE [raised |-> "AttributeError", self |-> s1]
    IN Only({ result(v) :
                v \in {[i \in 1..(2 * n) |->
                          IF i <= n THEN call(i, <<"V", "p">>)
                          ELSE call(i - n, <<"V", "s">>)]} })

regrid(self, target) ==
    LET n == Len(target.data)
        call(i, phase) == _get_V(self, Float(target.data[i][1]),
                                 target.data[i][2], target.data[i][3], Str(phase))
        result(v) ==
            IF FirstRaised(v) # Returned
            THEN [raised |-> FirstRaised(v), self |-> self]
            ELSE [raised |-> "AttributeError", self |-> self]
    IN Only({ result(v) :
                v \in {[i \in 1..(2 * n) |->
                          IF i <= n THEN call(i, <<"V", "p">>)
                          ELSE call(i - n, <<"V", "s">>)]} })

\* self.nodes["r_min"] is read first, before any lattice is built: AttributeError
regularize(self, nr, ntheta, nphi) == [raised |-> "AttributeError", self |-> self]

(***************************************************************************)
(* extract_slice.  n and d are np.linspace, (nn, dd) = np.meshgrid(n, d)   *)
(* has shape (nz, nx), the plane is (north, east = 0, down), strike is not *)
(* used.  The slice inputs are chosen so that the linspace steps are whole *)
(* numbers.  Nothing is assigned to self.                                  *)
(***************************************************************************)
linspace(start, stop, num) ==
    [i \in 1..num |->
        IF num = 1 THEN start ELSE start + ((i - 1) * (stop - start)) \div (num - 1)]

\* as_ned(...).set_origin(origin).to_geographic(): the local plane laid flat
\* on the geographic coordinates of the origin
ned_to_geographic(origin, ned) ==
    <<origin[1] + ned[1], origin[2] + ned[2], origin[3] + ned[3]>>

slice_plane(origin, length, zmin, zmax, nx, nz) ==
    Only({ [ned |-> [shape |-> <<nz, nx>>, data |-> ned],
            geo |-> [shape |-> <<nz, nx>>,
                     data |-> [i \in 1..(nz * nx) |-> ned_to_geographic(origin, ned[i])]]] :
             ned \in { [i \in 1..(nz * nx) |->
                          << n[((i - 1) % nx) + 1], 0, d[((i - 1) \div nx) + 1] >>] :
                        n \in {linspace(-length, length, nx)},
                        d \in {linspace(zmin, zmax, nz)} } })

\* extract_slice that keeps the slice geometry on the instance as its lattice
extract_slice_keeping_geo(self, phase, origin, strike, length, zmin, zmax, nx, nz) ==
    Only({ [raised |-> r.raised, vv |-> r.vv, ned |-> pl.ned, geo |-> pl.geo,
            self |-> [self EXCEPT !._nodes = [shape |-> <<nz, nx, 1>>,
                                              data |-> pl.geo.data]]] :
             r \in { __call__(self, phase, q.geo) :
                       q \in {slice_plane(origin, length, zmin, zmax, nx, nz)} },
             pl \in {slice_plane(origin, length, zmin, zmax, nx, nz)} })

extract_slice(self, phase, origin, strike, length, zmin, zmax, nx, nz) ==
    Only({ [raised |-> r.raised, vv |-> r.vv, ned |-> pl.ned, geo |-> pl.geo,
            self |-> self] :
             r \in { __call__(self, phase, q.geo) :
                       q \in {slice_plane(origin, length, zmin, zmax, nx, nz)} },
             pl \in {slice_plane(origin, length, zmin, zmax, nx, nz)} })

(***************************************************************************)
(* __init__ and the readers.  inf is None or a path, modelled by the file  *)
(* at that path: [exists, rows], rows being the point cloud its text       *)
(* decodes to (lat, lon, depth, Vp, Vs per record).  fmt is None or a str. *)
(***************************************************************************)
T_FANG == <<"F", "A", "N", "G">>
T_FM3D == <<"F", "M", "3", "D">>
T_FMM3D == <<"F", "M", "M", "3", "D">>
T_ABZ == <<"A", "B", "Z">>
T_ABZ2015 == <<"A", "B", "Z", "2", "0", "1", "5">>
T_ABZ15 == <<"A", "B", "Z", "1", "5">>
T_UCVM == <<"U", "C", "V", "M">>
T_SCEC_UCVM == <<"S", "C", "E", "C", "-", "U", "C", "V", "M">>
T_NPZ == <<"N", "P", "Z">>

read_rows(self, inf) ==
    IF ~inf.exists THEN [raised |-> "FileNotFoundError", self |-> self]
    ELSE build_grid(self, with_spherical(inf.rows))

_read_fang(self, inf) == read_rows(self, inf)

_read_ucvm(self, inf) == read_rows(self, inf)

\* np.load(inf): the bundle holds the three arrays that save() wrote for the
\* model of the file's records
np_load(inf) == build_grid(NewInstance, with_spherical(inf.rows)).self

_read_npz(self, inf) ==
    IF ~inf.exists THEN [raised |-> "FileNotFoundError", self |-> self]
    ELSE Only({ [raised |-> Returned,
                 self |-> [attrs  |-> self.attrs \cup {"_nodes", "_Vp", "_Vs"},
                           _nodes |-> b._nodes,
                           _Vp    |-> b._Vp,
                           _Vs    |-> b._Vs]] : b \in {np_load(inf)} })

\* defined without self: the call self._read_abz(inf) passes two positionals
_read_abz(self, inf) == [raised |-> "TypeError", self |-> self]

\* __init__ without the final else: an unmatched tag falls through
init_without_else(self, inf, fmt, topo) ==
    IF inf = None THEN [raised |-> Returned, self |-> self]
    ELSE LET s1 == [self EXCEPT !.attrs = @ \cup {"topo"}]
         IN IF fmt = None THEN [raised |-> "AttributeError", self |-> s1]
            ELSE IF upper(fmt.s) = T_FANG THEN _read_fang(s1, inf)
            ELSE IF upper(fmt.s) \in {T_FM3D, T_FMM3D}
                 THEN [raised |-> "NotImplementedError", self |-> s1]
            ELSE IF upper(fmt.s) \in {T_ABZ, T_ABZ2015, T_ABZ15} THEN _read_abz(s1, inf)
            ELSE IF upper(fmt.s) \in {T_UCVM, T_SCEC_UCVM} THEN _read_ucvm(s1, inf)
            ELSE IF upper(fmt.s) = T_NPZ THEN _read_npz(s1, inf)
            ELSE [raised |-> Returned, self |-> s1]

__init__(self, inf, fmt, topo) ==
    IF inf = None THEN [raised |-> Returned, self |-> self]
    ELSE LET s1 == [self EXCEPT !.attrs = @ \cup {"topo"}]
         IN IF fmt = None THEN [raised |-> "AttributeError", self |-> s1]
            ELSE IF upper(fmt.s) = T_FANG THEN _read_fang(s1, inf)
            ELSE IF upper(fmt.s) \in {T_FM3D, T_FMM3D}
                 THEN [raised |-> "NotImplementedError", self |-> s1]
            ELSE IF upper(fmt.s) \in {T_ABZ, T_ABZ2015, T_ABZ15} THEN _read_abz(s1, inf)
            ELSE IF upper(fmt.s) \in {T_UCVM, T_SCEC_UCVM} THEN _read_ucvm(s1, inf)
            ELSE IF upper(fmt.s) = T_NPZ THEN _read_npz(s1, inf)
            ELSE [raised |-> "ValueError", self |-> s1]

(***************************************************************************)
(* Inputs                                                                  *)
(***************************************************************************)
\* the i-th coordinate of an axis: 1, 3, 6, ... (non-uniform spacing, with a
\* gap before, between and after the nodes for the queries)
Coord(i) == (i * (i + 1)) \div 2

\* np.meshgrid(lat, lon, depth, indexing="ij"), flattened
MeshPoints(nlat, nlon, ndepth) ==
    [r \in 1..(nlat * nlon * ndepth) |->
        [lat   |-> Coord(((r - 1) \div (nlon * ndepth)) + 1),
         lon   |-> Coord((((r - 1) \div ndepth) % nlon) + 1),
         depth |-> Coord(((r - 1) % ndepth) + 1)]]

\* a different value at every node, and Vp # Vs everywhere
CodedP(lat, lon, depth) == 256 * depth + 16 * lat + lon
CodedS(lat, lon, depth) == 256 * lon + 16 * depth + lat + 5000

\* the scenario field: one value everywhere but at the corner of the largest
\* radius, colatitude and azimuth (smallest depth and latitude, largest longitude)
CornerP(lat, lon, depth) == IF depth = Coord(1) /\ lat = Coord(1) /\ lon = Coord(2) THEN 7 ELSE 5
CornerS(lat, lon, depth) == IF depth = Coord(1) /\ lat = Coord(1) /\ lon = Coord(2) THEN 5 ELSE 3

CodedRows(nlat, nlon, ndepth) ==
    [r \in 1..(nlat * nlon * ndepth) |->
        Only({ [lat |-> g.lat, lon |-> g.lon, depth |-> g.depth,
                Vp |-> CodedP(g.lat, g.lon, g.depth),
                Vs |-> CodedS(g.lat, g.lon, g.depth)] :
                 g \in {MeshPoints(nlat, nlon, ndepth)[r]} })]

ScenarioRows ==
    [r \in 1..8 |->
        Only({ [lat |-> g.lat, lon |-> g.lon, depth |-> g.depth,
                Vp |-> CornerP(g.lat, g.lon, g.depth),
                Vs |-> CornerS(g.lat, g.lon, g.depth)] :
                 g \in {MeshPoints(2, 2, 2)[r]} })]

Perms(n) == {p \in [1..n -> 1..n] : \A i, j \in 1..n : p[i] = p[j] => i = j}

\* the input orders tried for a cloud of n records
Orders(n) ==
    IF n <= MaxPermLen THEN Perms(n)
    ELSE { [i \in 1..n |-> i],                       \* as meshed
           [i \in 1..n |-> n + 1 - i],               \* reversed
           [i \in 1..n |-> (i % n) + 1],             \* rotated by one
           [i \in 1..n |-> ((i + n \div 2 - 1) % n) + 1],   \* rotated by half
           [i \in 1..n |-> IF i = 1 THEN n ELSE IF i = n THEN 1 ELSE i] }

Permute(rows, p) == [i \in 1..Len(rows) |-> rows[p[i]]]

Reordered(rows) == {Permute(rows, p) : p \in Orders(Len(rows))}

AxisCounts == 1..MaxAxis

\* one axis of MaxAxis + 1 coordinates, the other two of one
LongShapes == { <<MaxAxis + 1, 1, 1>>, <<1, MaxAxis + 1, 1>>, <<1, 1, MaxAxis + 1>> }

\* full Cartesian products, in the input orders above
CartesianClouds ==
    UNION {Reordered(CodedRows(a, b, c)) : a \in AxisCounts, b \in AxisCounts, c \in AxisCounts}
    \cup UNION {Reordered(CodedRows(sh[1], sh[2], sh[3])) : sh \in LongShapes}
    \cup Reordered(ScenarioRows)

\* a product with its last record missing
TruncatedClouds ==
    {SubSeq(CodedRows(a, b, c), 1, a * b * c - 1) :
        a \in AxisCounts, b \in AxisCounts, c \in AxisCounts}

\* a cloud that repeats a coordinate: 2 radii, 2 colatitudes, 4 records
RepeatedCloud ==
    << [lat |-> 3, lon |-> 1, depth |-> 3, Vp |-> 10, Vs |-> 11],
       [lat |-> 3, lon |-> 1, depth |-> 3, Vp |-> 20, Vs |-> 21],
       [lat |-> 3, lon |-> 1, depth |-> 1, Vp |-> 30, Vs |-> 31],
       [lat |-> 1, lon |-> 1, depth |-> 1, Vp |-> 40, Vs |-> 41] >>

Clouds == CartesianClouds \cup (TruncatedClouds \ {<<>>}) \cup {RepeatedCloud}

\* the files a constructor may be pointed at
Files == { [t |-> "str", exists |-> FALSE, rows |-> <<>>],
           [t |-> "str", exists |-> TRUE, rows |-> CodedRows(2, 1, 2)],
           [t |-> "str", exists |-> TRUE, rows |-> ScenarioRows] }

\* spellings of the tags that have a reader
ReaderTags ==
    { T_FANG, <<"f", "a", "n", "g">>, <<"F", "a", "n", "G">>,
      T_UCVM, <<"u", "c", "v", "m">>, T_SCEC_UCVM,
      <<"s", "c", "e", "c", "-", "u", "c", "v", "m">>,
      T_NPZ, <<"n", "p", "z">> }

\* spellings of the tags that are known and have no decoder
UnimplementedTags ==
    { T_FM3D, <<"f", "m", "3", "d">>, T_FMM3D, <<"F", "m", "m", "3", "d">>,
      T_ABZ, <<"a", "b", "z">>, T_ABZ2015, <<"A", "b", "z", "2", "0", "1", "5">>,
      T_ABZ15, <<"a", "b", "z", "1", "5">> }

\* tags that match no recognized tag in any letter case
UnrecognizedTags ==
    { <<"X", "Y", "Z">>, <<"F", "A", "N", "G", "S">>, <<"n", "p", "y">>,
      <<"F", "M", "2", "D">>, <<"S", "C", "E", "C", "_", "U", "C", "V", "M">>,
      <<"a", "b", "z", "2", "0">>, <<>> }

FormatTags == ReaderTags \cup UnimplementedTags \cup UnrecognizedTags

\* spellings of the two phases, and identifiers that are neither
PNames == { <<"P">>, <<"p">>, <<"V", "P">>, <<"v", "p">> }
SNames == { <<"S">>, <<"V", "s">>, <<"v", "s">> }
BadNames == { <<"X">>, <<"P", "S">>, <<>> }

PhaseNames == PNames \cup SNames \cup BadNames

\* the phases of the single-point queries
PointPhases == { <<"P">>, <<"v", "s">>, <<"X">> }

Offsets == 0..MaxCoord
RQueries == {EARTH_RADIUS - c : c \in Offsets}
TQueries == {QuarterTurn - c : c \in Offsets}
PQueries == Offsets

\* geographic points of the array queries: on a node and between nodes
CallPoints == {<<c, c, c>> : c \in {Coord(1), Coord(1) + 1}}

\* coordinate arrays of up to MaxPts points, as (n,), (1, n) and (n, 1)
CoordArrays ==
    UNION { { [shape |-> sh, data |-> d] :
                sh \in {<<n>>, <<1, n>>, <<n, 1>>}, d \in [1..n -> CallPoints] } :
            n \in 0..MaxPts }

\* the lattice of three axes, as np.meshgrid(r, t, p, indexing="ij")
Mesh(r, t, p) ==
    [shape |-> <<Len(r), Len(t), Len(p)>>,
     data |-> [i \in 1..(Len(r) * Len(t) * Len(p)) |->
                 << r[((i - 1) \div (Len(t) * Len(p))) + 1],
                    t[(((i - 1) \div Len(p)) % Len(t)) + 1],
                    p[((i - 1) % Len(p)) + 1] >>]]

TargetAxes(base) == { <<>>, <<base + 2>>, <<base + 1, base + 4>> }

Targets ==
    { Mesh(r, t, p) : r \in TargetAxes(EARTH_RADIUS - MaxCoord),
                      t \in TargetAxes(QuarterTurn - MaxCoord),
                      p \in TargetAxes(0) }

\* the slices: origin, half-length and depth range; 0..MaxSlice samples a side
SliceOrigin == <<Coord(2), Coord(1), 0>>
SliceLength == 3
SliceZmin == 0
SliceZmax == 6
SliceCounts == 0..MaxSlice

(***************************************************************************)
(* The state machine.  last.op is "new" for an instance whose __init__ has *)
(* not run yet, "idle" between calls, and otherwise names the call whose   *)
(* outcome the client is looking at.                                       *)
(***************************************************************************)
SetSelf(s) ==
    /\ attrs' = s.attrs
    /\ _nodes' = s._nodes
    /\ _Vp' = s._Vp
    /\ _Vs' = s._Vs

Init ==
    /\ attrs = NewInstance.attrs
    /\ _nodes = NewInstance._nodes
    /\ _Vp = NewInstance._Vp
    /\ _Vs = NewInstance._Vs
    /\ last = [op |-> "new"]

\* VelocityModel(inf, fmt, topo)
Construct ==
    /\ last.op = "new"
    /\ \E inf \in {None} \cup Files,
          fmt \in {None} \cup {Str(tag) : tag \in FormatTags},
          topo \in {None, Str(<<"f">>)} :
          \E r \in {__init__(Self, inf, fmt, topo)} :
             /\ SetSelf(r.self)
             /\ last' = [op |-> "__init__", inf |-> inf, fmt |-> fmt,
                         raised |-> r.raised]

\* a constructor that raised leaves no instance behind: the client starts over
Discard ==
    /\ last.op = "__init__"
    /\ last.raised # Returned
    /\ SetSelf(NewInstance)
    /\ last' = [op |-> "new"]

\* the client has seen the outcome of the call
Return ==
    /\ last.op \notin {"new", "idle"}
    /\ ~(last.op = "__init__" /\ last.raised # Returned)
    /\ last' = [op |-> "idle"]
    /\ UNCHANGED <<attrs, _nodes, _Vp, _Vs>>

\* vm.from_DataFrame(df) with a point cloud of the client's
FromDataFrame ==
    /\ last.op = "idle"
    /\ \E df \in Clouds :
          \E r \in {from_DataFrame(Self, df)} :
             /\ SetSelf(r.self)
             /\ last' = [op |-> "from_DataFrame", df |-> df, exported |-> FALSE,
                         old |-> NewInstance, raised |-> r.raised]

\* df = vm.to_DataFrame()
ToDataFrame ==
    /\ last.op = "idle"
    /\ \E r \in {to_DataFrame(Self)} :
          last' = [op |-> "to_DataFrame", df |-> r.df, raised |-> r.raised]
    /\ UNCHANGED <<attrs, _nodes, _Vp, _Vs>>

\* vm.from_DataFrame(df) with the table to_DataFrame has just returned
FromExported ==
    /\ last.op = "to_DataFrame"
    /\ last.raised = Returned
    /\ \E r \in {from_DataFrame(Self, last.df)} :
          /\ SetSelf(r.self)
          /\ last' = [op |-> "from_DataFrame", df |-> last.df, exported |-> TRUE,
                      old |-> Self, raised |-> r.raised]

\* vm._get_V(phase, rho, theta, phi)
GetV ==
    /\ last.op = "idle"
    /\ \E phase \in PointPhases, rho \in RQueries, theta \in TQueries, phi \in PQueries :
          \E r \in {_get_V(Self, Str(phase), rho, theta, phi)} :
             last' = [op |-> "_get_V", phase |-> phase, rho |-> rho,
                      theta |-> theta, phi |-> phi,
                      raised |-> r.raised, val |-> r.val, loc |-> r.loc]
    /\ UNCHANGED <<attrs, _nodes, _Vp, _Vs>>

\* vm(phase, coords)
Call ==
    /\ last.op = "idle"
    /\ \E phase \in PhaseNames, coords \in CoordArrays :
          \E r \in {__call__(Self, Str(phase), coords)} :
             last' = [op |-> "__call__", phase |-> phase, coords |-> coords,
                      raised |-> r.raised, vv |-> r.vv]
    /\ UNCHANGED <<attrs, _nodes, _Vp, _Vs>>

\* vm.regrid(R, T, P), onto a target lattice or onto the model's own
Regrid ==
    /\ last.op = "idle"
    /\ \E target \in Targets \cup {_nodes} :
          \E r \in {regrid(Self, target)} :
             /\ SetSelf(r.self)
             /\ last' = [op |-> "regrid", target |-> target, old |-> Self,
                         raised |-> r.raised]

\* vm.regularize(nr, ntheta, nphi)
Regularize ==
    /\ last.op = "idle"
    /\ \E nr \in AxisCounts, ntheta \in AxisCounts, nphi \in AxisCounts :
          \E r \in {regularize(Self, nr, ntheta, nphi)} :
             /\ SetSelf(r.self)
             /\ last' = [op |-> "regularize", nr |-> nr, ntheta |-> ntheta,
                         nphi |-> nphi, old |-> Self, raised |-> r.raised]

\* vm.extract_slice(phase, origin, strike, length, zmin, zmax, nx, nz)
ExtractSlice ==
    /\ last.op = "idle"
    /\ \E phase \in PointPhases, nx \in SliceCounts, nz \in SliceCounts :
          \E r \in {extract_slice(Self, Str(phase), SliceOrigin, 0, SliceLength,
                                   SliceZmin, SliceZmax, nx, nz)} :
             /\ SetSelf(r.self)
             /\ last' = [op |-> "extract_slice", phase |-> phase, nx |-> nx, nz |-> nz,
                         raised |-> r.raised, vv |-> r.vv, geo |-> r.geo]

Next ==
    \/ Construct
    \/ Discard
    \/ Return
    \/ FromDataFrame
    \/ ToDataFrame
    \/ FromExported
    \/ GetV
    \/ Call
    \/ Regrid
    \/ Regularize
    \/ ExtractSlice

Spec == Init /\ [][Next]_vars

(***************************************************************************)
(* Vocabulary of the properties                                            *)
(***************************************************************************)
Built == {"_nodes", "_Vp", "_Vs"} \subseteq attrs

StrictlyAscending(a) == \A i \in 1..(Len(a) - 1) : a[i] < a[i + 1]

Indices(a) == (0..(a.shape[1] - 1)) \X (0..(a.shape[2] - 1)) \X (0..(a.shape[3] - 1))

\* a Node Lattice as section 3 of the specification defines it: every axis has
\* one strictly ascending coordinate sequence, whatever the other two indices
Rectilinear(nodes) ==
    /\ Len(nodes.data) > 0
    /\ StrictlyAscending(axis_R(nodes))
    /\ StrictlyAscending(axis_T(nodes))
    /\ StrictlyAscending(axis_P(nodes))
    /\ \A x \in Indices(nodes) :
          At3(nodes, x[1], x[2], x[3])
            = <<axis_R(nodes)[x[1] + 1], axis_T(nodes)[x[2] + 1], axis_P(nodes)[x[3] + 1]>>

\* a single-point query on a built model with a rectilinear lattice and a
\* phase identifier that names a phase
PointQuery ==
    /\ last.op = "_get_V"
    /\ Built
    /\ Rectilinear(_nodes)
    /\ last.phase \in PNames \cup SNames

\* the field the phase identifier names
FieldOf(phase) == IF phase \in PNames THEN _Vp ELSE _Vs

Query == <<last.rho, last.theta, last.phi>>

Axes == <<axis_R(_nodes), axis_T(_nodes), axis_P(_nodes)>>

Exact(i) == [i0 |-> i, i1 |-> i, d |-> 1, delta |-> 0]

(***************************************************************************)
(* C1  Exact match: a single-point query at the exact coordinate of node   *)
(* (i, j, k) of a rectilinear lattice returns the stored value of the      *)
(* selected field at [i, j, k], every axis locator giving i0 = i1 = the    *)
(* node's index, d = 1, delta = 0; for phase P and for phase S.            *)
(***************************************************************************)
C1_ExactMatch ==
    PointQuery =>
        \A x \in Indices(_nodes) :
            Query = At3(_nodes, x[1], x[2], x[3]) =>
                /\ last.raised = Returned
                /\ last.val = RInt(At3(FieldOf(last.phase), x[1], x[2], x[3]))
                /\ last.loc = <<Exact(x[1]), Exact(x[2]), Exact(x[3])>>

\* a query of phase S at a node that is the last of its radial axis and not the first
C1_Witness ==
    /\ PointQuery
    /\ last.phase \in SNames
    /\ \E x \in Indices(_nodes) :
          /\ x[1] > 0 /\ x[2] > 0
          /\ Query = At3(_nodes, x[1], x[2], x[3])
          /\ last.val = RInt(At3(_Vs, x[1], x[2], x[3]))

(***************************************************************************)
(* C2  Interior bracketing: for a query coordinate strictly between the    *)
(* minimum and the maximum of an ascending axis and equal to none of its   *)
(* elements, the locator picks i0 = the index of the largest element below *)
(* q, i1 = the index of the smallest element above q, d = axis[i1] -       *)
(* axis[i0], delta = q - axis[i0]; on the 2x2x2 lattice whose corners are  *)
(* all 5 but one 7, the midpoint query returns 5.25.                       *)
(***************************************************************************)
Interior(axis, q) ==
    /\ \A i \in 1..Len(axis) : axis[i] # q
    /\ axis[1] < q
    /\ q < axis[Len(axis)]

\* the bracket the specification's Axis Locator gives an interior query
Bracket(axis, q) ==
    LET below == CHOOSE i \in 1..Len(axis) :
                    axis[i] < q /\ \A j \in 1..Len(axis) : axis[j] < q => axis[j] <= axis[i]
        above == CHOOSE i \in 1..Len(axis) :
                    axis[i] > q /\ \A j \in 1..Len(axis) : axis[j] > q => axis[j] >= axis[i]
    IN [i0 |-> below - 1, i1 |-> above - 1,
        d |-> axis[above] - axis[below], delta |-> q - axis[below]]

\* the scenario lattice of the specification, and the query at its midpoint
ScenarioMidpoint ==
    /\ _nodes.shape = <<2, 2, 2>>
    /\ \A x \in Indices(_nodes) :
          At3(_Vp, x[1], x[2], x[3]) = IF x = <<1, 1, 1>> THEN 7 ELSE 5
    /\ last.phase \in PNames
    /\ \A c \in 1..3 : 2 * Query[c] = Axes[c][1] + Axes[c][2]

C2_InteriorBracketing ==
    PointQuery =>
        /\ \A c \in 1..3 :
              Interior(Axes[c], Query[c]) => last.loc[c] = Bracket(Axes[c], Query[c])
        /\ ScenarioMidpoint => last.val = <<21, 4>>

(***************************************************************************)
(* C3  Boundary clamp: a query whose coordinate on an axis is strictly     *)
(* below the axis minimum or strictly above the axis maximum does not      *)
(* raise and returns what the query with that coordinate replaced by the   *)
(* nearest boundary coordinate returns, the other two unchanged.  The      *)
(* lattice is a Node Lattice of section 3 (strictly ascending axes).       *)
(***************************************************************************)
AxisMin(axis) == CHOOSE m \in {axis[i] : i \in 1..Len(axis)} :
                    \A i \in 1..Len(axis) : m <= axis[i]
AxisMax(axis) == CHOOSE m \in {axis[i] : i \in 1..Len(axis)} :
                    \A i \in 1..Len(axis) : m >= axis[i]

Outside(axis, q) == q < AxisMin(axis) \/ q > AxisMax(axis)

Nearest(axis, q) == IF q < AxisMin(axis) THEN AxisMin(axis) ELSE AxisMax(axis)

\* the query with coordinate c clamped
Clamped(c) == [Query EXCEPT ![c] = Nearest(Axes[c], Query[c])]

AtPoint(phase, q) == _get_V(Self, Str(phase), q[1], q[2], q[3])

WasBuilt(old) == {"_nodes", "_Vp", "_Vs"} \subseteq old.attrs

Resampled(old, phase, target) ==
    [i \in 1..Len(target.data) |->
        _get_V(old, Str(phase), target.data[i][1], target.data[i][2],
               target.data[i][3]).val]

C4_RegridPostcondition ==
    (last.op = "regrid" /\ WasBuilt(last.old) /\ Len(last.target.data) > 0) =>
        /\ last.raised = Returned
        /\ _nodes = last.target
        /\ _Vp.shape = last.target.shape
        /\ _Vs.shape = last.target.shape
        /\ [i \in 1..Len(_Vp.data) |-> RInt(_Vp.data[i])]
             = Resampled(last.old, <<"P">>, last.target)
        /\ [i \in 1..Len(_Vs.data) |-> RInt(_Vs.data[i])]
             = Resampled(last.old, <<"S">>, last.target)

(***************************************************************************)
(* C5  regularize(nR, nT, nP) on a freshly built model leaves a lattice of *)
(* shape (nR, nT, nP) with the per-axis minimum and maximum it had before  *)
(* the call.                                                               *)
(***************************************************************************)
Bounds(nodes) ==
    [c \in 1..3 |->
        <<AxisMin([i \in 1..Len(nodes.data) |-> nodes.data[i][c]]),
          AxisMax([i \in 1..Len(nodes.data) |-> nodes.data[i][c]])>>]

C5_RegularizePostcondition ==
    (last.op = "regularize" /\ WasBuilt(last.old)) =>
        /\ last.raised = Returned
        /\ _nodes.shape = <<last.nr, last.ntheta, last.nphi>>
        /\ Bounds(_nodes) = Bounds(last.old._nodes)

(***************************************************************************)
(* C6  Constructing a model from an input path with a format tag that is   *)
(* known but unimplemented (FM3D, FMM3D, ABZ, ABZ2015, ABZ15, in any       *)
(* letter case) fails with NotImplementedError.                            *)
(***************************************************************************)
ConstructedWith(tags) ==
    /\ last.op = "__init__"
    /\ last.inf # None
    /\ last.fmt # None
    /\ last.fmt.s \in tags

C6_UnimplementedFormat ==
    ConstructedWith(UnimplementedTags) => last.raised = "NotImplementedError"

(***************************************************************************)
(* C7  Constructing a model from an input path with a format tag that      *)
(* matches no recognized tag fails with ValueError, and at that moment     *)
(* neither the Node Lattice nor a Value Field is set on the instance.      *)
(***************************************************************************)
C7_UnrecognizedFormat ==
    ConstructedWith(UnrecognizedTags) =>
        /\ last.raised = "ValueError"
        /\ attrs \cap {"_nodes", "_Vp", "_Vs"} = {}
        /\ _nodes = EmptyArray /\ _Vp = EmptyArray /\ _Vs = EmptyArray

\* the tag differs from a recognized one by its last character, and the file exists
C7_Witness ==
    /\ ConstructedWith({<<"n", "p", "y">>})
    /\ last.inf.exists
    /\ last.raised = "ValueError"

(***************************************************************************)
(* C8  Phase handling of the public query: for a coordinate array of any   *)
(* leading shape and any number of points, a phase identifier that is not  *)
(* a spelling of P, VP, S, VS signals an error, and a spelling of P or VP  *)
(* selects the P field, of S or VS the S field.                            *)
(***************************************************************************)
PointsOf(coords) == [i \in 1..Len(coords.data) |-> to_spherical(coords.data[i])]

\* the interpolation of one field at a point
Interpolated(field, q) ==
    trilinear(field, locate(axis_R(_nodes), q[1]), locate(axis_T(_nodes), q[2]),
              locate(axis_P(_nodes), q[3]))

InvalidPhaseSignals == last.phase \in BadNames => last.raised # Returned

ValidPhaseSelects ==
    last.phase \in PNames \cup SNames =>
        /\ last.raised = Returned
        /\ last.vv.shape = last.coords.shape
        /\ last.vv.data =
             [i \in 1..Len(last.coords.data) |->
                 Interpolated(FieldOf(last.phase), PointsOf(last.coords)[i])]

C8_PhaseHandling ==
    (last.op = "__call__" /\ Built) => (InvalidPhaseSignals /\ ValidPhaseSelects)

(***************************************************************************)
(* C9  Monotonic axes: from_DataFrame on a point cloud that is the full    *)
(* Cartesian product of its per-axis coordinate sets, in any input order,  *)
(* gives a lattice of shape (nR, nT, nP), the per-axis distinct counts,    *)
(* with radius strictly ascending along axis 0, colatitude along axis 1    *)
(* and azimuth along axis 2 for every choice of the other two indices, and *)
(* Vp[i,j,k], Vs[i,j,k] the values of the record whose coordinate is       *)
(* node[i,j,k].                                                            *)
(***************************************************************************)
Spherical(df) == {to_spherical(GeoOf(df[r])) : r \in 1..Len(df)}

Column(df, c) == {x[c] : x \in Spherical(df)}

IsCartesian(df) ==
    /\ Len(df) > 0
    /\ Cardinality(Spherical(df)) = Len(df)
    /\ Len(df) = Cardinality(Column(df, 1)) * Cardinality(Column(df, 2))
                   * Cardinality(Column(df, 3))

AscendingAlong(nodes, c) ==
    \A x \in Indices(nodes), y \in Indices(nodes) :
        (y[c] = x[c] + 1 /\ \A e \in (1..3) \ {c} : y[e] = x[e]) =>
            At3(nodes, x[1], x[2], x[3])[c] < At3(nodes, y[1], y[2], y[3])[c]

C9_MonotonicAxes ==
    (last.op = "from_DataFrame" /\ IsCartesian(last.df)) =>
        /\ last.raised = Returned
        /\ Built
        /\ _nodes.shape = <<Cardinality(Column(last.df, 1)),
                            Cardinality(Column(last.df, 2)),
                            Cardinality(Column(last.df, 3))>>
        /\ _Vp.shape = _nodes.shape
        /\ _Vs.shape = _nodes.shape
        /\ \A c \in 1..3 : AscendingAlong(_nodes, c)
        /\ \A x \in Indices(_nodes) :
              \E r \in 1..Len(last.df) :
                  /\ to_spherical(GeoOf(last.df[r])) = At3(_nodes, x[1], x[2], x[3])
                  /\ last.df[r].Vp = At3(_Vp, x[1], x[2], x[3])
                  /\ last.df[r].Vs = At3(_Vs, x[1], x[2], x[3])

\* a cloud of a 2x2x2 product whose first record is not the first node
C9_Witness ==
    /\ last.op = "from_DataFrame"
    /\ ~last.exported
    /\ IsCartesian(last.df)
    /\ _nodes.shape = <<2, 2, 2>>
    /\ to_spherical(GeoOf(last.df[1])) # At3(_nodes, 0, 0, 0)
    /\ last.raised = Returned

(***************************************************************************)
(* C10  Tabular round trip: for a model with a rectilinear lattice,        *)
(* to_DataFrame followed by from_DataFrame on the exported table gives     *)
(* back the Node Lattice and both Value Fields, index for index, although  *)
(* the export is sorted by (lat, lon, depth).  The coordinate transforms   *)
(* of the model are exact inverses of each other.                          *)
(***************************************************************************)
C10_RoundTrip ==
    (/\ last.op = "from_DataFrame"
     /\ last.exported
     /\ Rectilinear(last.old._nodes)) =>
        /\ last.raised = Returned
        /\ _nodes = last.old._nodes
        /\ _Vp = last.old._Vp
        /\ _Vs = last.old._Vs

\* the exported table was not in (R, T, P) order
C10_Witness ==
    /\ last.op = "from_DataFrame"
    /\ last.exported
    /\ Rectilinear(last.old._nodes)
    /\ Len(last.df) > 1
    /\ <<last.df[1].R, last.df[1].T, last.df[1].P>> # last.old._nodes.data[1]
    /\ _Vp = last.old._Vp

(***************************************************************************)
(* C11  Queries are read-only: a step that is a point query (__call__), a  *)
(* single-point lookup (_get_V) or an extract_slice call, whether it       *)
(* returns or raises, leaves the Node Lattice and both Value Fields as     *)
(* they were; and every step that changes them is a construction           *)
(* (__init__, from_DataFrame, a new instance) or a Resampler call.         *)
(***************************************************************************)
QueryOps == {"__call__", "_get_V", "extract_slice"}

BuilderOps == {"new", "__init__", "from_DataFrame"}

ResamplerOps == {"regrid", "regularize"}

Fields == <<_nodes, _Vp, _Vs, attrs \cap {"_nodes", "_Vp", "_Vs"}>>

QueryStep == last.op = "idle" /\ last'.op \in QueryOps

C11_QueriesReadOnly ==
    [][ /\ QueryStep => Fields' = Fields
        /\ Fields' # Fields => last'.op \in BuilderOps \cup ResamplerOps ]_vars

\* a slice of four points through a built model came back with two values
C11_Witness ==
    /\ last.op = "extract_slice"
    /\ Built
    /\ last.raised = Returned
    /\ Len(last.vv.data) = 4
    /\ \E i, j \in 1..4 : last.vv.data[i] # last.vv.data[j]

(***************************************************************************)
(* C12  Atomic replace: in every reachable state the Node Lattice, Vp and  *)
(* Vs are set together and have one shape, each holding one entry per      *)
(* node; and after a regrid or regularize call that raised, all three are  *)
(* what they were before the call, so a query gives what it gave before.   *)
(***************************************************************************)
Size(a) == a.shape[1] * a.shape[2] * a.shape[3]

Consistent ==
    /\ attrs \cap {"_nodes", "_Vp", "_Vs"} \in {{}, {"_nodes", "_Vp", "_Vs"}}
    /\ _Vp.shape = _nodes.shape
    /\ _Vs.shape = _nodes.shape
    /\ Len(_nodes.data) = Size(_nodes)
    /\ Len(_Vp.data) = Size(_nodes)
    /\ Len(_Vs.data) = Size(_nodes)

\* the queries tried before and after: both phases, on and off the nodes
Probes == { <<phase, EARTH_RADIUS - c, QuarterTurn - c, c>> :
              phase \in {<<"P">>, <<"v", "s">>}, c \in Offsets }

FailedResample == last.op \in ResamplerOps /\ last.raised # Returned

=============================================================================
